---- MODULE Spec2Model ----
(***************************************************************************)
(* The backup scripts of mc-backup as one state machine.                   *)
(*                                                                         *)
(*   variant "hardcoded" : src/unnamed/part_000 (paths are constants)      *)
(*   variant "single"    : src/index.js         (paths from backup.yaml)   *)
(*   variant "recurring" : src/unnamed/part_001 (copy, zip, delete; timer) *)
(*                                                                         *)
(* Node runs every callback to completion, so one action is one callback   *)
(* (or the synchronous body of the script): the script body, the timer     *)
(* callback, one readdir/stat completion of getFolderSize, one entry       *)
(* appended by the archiver (its 'progress' event), the archiver's 'error' *)
(* event, the output stream's 'error' and 'close' events.  The owner of    *)
(* the source folder writes to it at any time, and time passes.            *)
(*                                                                         *)
(* getFolderSize, the same function in the three scripts, is also followed *)
(* on its own (ScanSpec) over folders with subdirectories, symbolic links  *)
(* and entries that cannot be read.                                        *)
(***************************************************************************)
EXTENDS Integers, Sequences, FiniteSets, TLC

\* ---------------------------------------------------------------- bounds
\* The clock is followed for MaxTime ticks; the owner of the source folder
\* writes to it at most MaxWrites times.
MaxTime == 2
MaxWrites == 1

\* getFolderSize is followed on folders with at most MaxEntries entries per
\* directory and MaxDepth levels of subdirectories.
MaxEntries == 2
MaxDepth == 1

\* setInterval(runBackupOperation, 60 * 60 * 1000): one interval is two
\* ticks of the model's clock (a tick is half an hour).
Interval == 2

\* The cycles that start within MaxTime: one at once, one per interval.
MaxCycles == (MaxTime \div Interval) + 1

\* The files the source folder may hold, with the byte length each has when
\* it is there: a small file (under 1% of the two together) and a big one.
Names == {"a", "b"}
SizeOf == [n \in Names |-> IF n = "a" THEN 1 ELSE 150]
Variants == {"hardcoded", "single", "recurring"}

\* Byte lengths of the regular files of a scanned folder, and of the file a
\* symbolic link points to.
FileSizes == {1, 2}
LinkTargetSize == 4
Cycles == 1..MaxCycles

VARIABLES
  variant,     \* which script runs
  config,      \* backup.yaml: "present" (or not used) | "absent" | "placeholder"
  proc,        \* "boot" | "running" | "crashed" | "exited"
  exitCode,    \* process exit status once proc is "crashed" or "exited"
  now,         \* the clock, in ticks
  timerArmed,  \* setInterval has been called
  nextFire,    \* when the interval timer is next due
  idleFor,     \* ticks since the last cycle ended, while none has started
  started,     \* number of cycles started so far
  source,      \* the folder at folderName
  tmp,         \* the folder at os.tmpdir()/temp_backup_world
  wsOwner,     \* the cycle whose copyFolder/delFolder last touched tmp (0: none)
  writes,      \* number of writes the owner of the source has made
  cyc,         \* per cycle: the locals of runBackupOperation and zipFolder
  scan         \* one call of getFolderSize on a folder with nested entries

vars == <<variant, config, proc, exitCode, now, timerArmed, nextFire,
          idleFor, started, source, tmp, wsOwner, writes, cyc, scan>>

\* ------------------------------------------------------------ file system
\* A folder's content: its file names with their byte lengths.
Trees == {[n \in S |-> SizeOf[n]] : S \in SUBSET Names}
EmptyTree == <<>>
NoDir == [exists |-> FALSE, files |-> EmptyTree]
Dir(t) == [exists |-> TRUE, files |-> t]

\* Tree t with file f holding s bytes, and with file f removed.
Put(t, f, s) == [n \in (DOMAIN t) \cup {f} |-> IF n = f THEN s ELSE t[n]]
Without(t, f) == [n \in (DOMAIN t) \ {f} |-> t[n]]

\* fs.mkdirSync(folderPath, { recursive: true }): creates the folder if it
\* is missing, leaves an existing one alone.
MkdirSync(d) == IF d.exists THEN d ELSE Dir(EmptyTree)

\* fs.cpSync(src, dst, { recursive: true }) having copied the files in
\* `copied`: dst is created if needed, copied files overwrite, files that
\* are only in dst stay.
CpSync(src, dst, copied) ==
  Dir([n \in (DOMAIN dst.files) \cup copied |->
         IF n \in copied THEN src.files[n] ELSE dst.files[n]])

\* fs.rmSync(tmpFolderPath, { recursive: true, force: true })
RmSync(d) == NoDir

\* ------------------------------------------------------------ getFolderSize
\* What readdir and stat show of one entry of a folder.  stat follows
\* symbolic links: a link to a regular file shows as that file, with the
\* file's size.  "denied" is an entry whose stat rejects (no permission, a
\* dangling link, an entry removed since the readdir).
File(n) == [kind |-> "file", size |-> n, entries |-> <<>>]
Link(n) == [kind |-> "link", size |-> n, entries |-> <<>>]
Denied == [kind |-> "denied", size |-> 0, entries |-> <<>>]
SubDir(es) == [kind |-> "dir", size |-> 0, entries |-> es]
Folder(es) == [accessible |-> TRUE, entries |-> es]
NoFolder == [accessible |-> FALSE, entries |-> <<>>]

Rejected == [ok |-> FALSE, totalSize |-> 0]

\* getSize(dir) over the entries readdir returned, in order, with the
\* running total `acc`: each entry is stat-ed and awaited in turn; a
\* directory is walked before the next entry; anything else adds
\* fileStat.size.  The first rejection rejects the whole walk.
RECURSIVE GetSize(_, _)
GetSize(es, acc) ==
  IF es = <<>> THEN [ok |-> TRUE, totalSize |-> acc]
  ELSE LET e == Head(es)
       IN IF e.kind = "denied" THEN Rejected
          ELSE IF e.kind = "dir"
            THEN LET r == GetSize(e.entries, acc)
                 IN IF r.ok THEN GetSize(Tail(es), r.totalSize) ELSE Rejected
          ELSE GetSize(Tail(es), acc + e.size)

\* getFolderSize(folderPath): totalSize starts at 0; readdir of a folder
\* that cannot be read rejects.
GetFolderSize(folder) ==
  IF folder.accessible THEN GetSize(folder.entries, 0) ELSE Rejected

\* A folder of the backup as getFolderSize sees it: regular files only.
RECURSIVE AsEntries(_)
AsEntries(t) ==
  IF DOMAIN t = {} THEN <<>>
  ELSE LET n == CHOOSE m \in DOMAIN t : TRUE
       IN <<File(t[n])>> \o AsEntries(Without(t, n))

FolderOf(d) == IF d.exists THEN Folder(AsEntries(d.files)) ELSE NoFolder

\* The folders getFolderSize is called on: inaccessible, or holding up to
\* MaxEntries entries per directory, nested up to MaxDepth directories deep.
SeqsUpTo(S, n) == UNION {[1..k -> S] : k \in 0..n}
Leaves == {File(n) : n \in FileSizes} \cup {Link(LinkTargetSize), Denied}

RECURSIVE EntriesOfDepth(_)
EntriesOfDepth(d) ==
  IF d = 0 THEN Leaves
  ELSE Leaves \cup {SubDir(es) : es \in SeqsUpTo(EntriesOfDepth(d - 1), MaxEntries)}

ScanFolders ==
  {NoFolder} \cup {Folder(es) : es \in SeqsUpTo(EntriesOfDepth(MaxDepth), MaxEntries)}

NoScan == [pc |-> "none", folder |-> NoFolder, result |-> Rejected]

\* ----------------------------------------------------------------- cycles
Active == {"scanning", "archiving"}
Ended == {"done", "failed"}

IdleCycle ==
  [pc |-> "idle",          \* idle | scanning | archiving | done | failed
   dir |-> "none",         \* zipFolder's folderPath: "source" | "workspace"
   listed |-> FALSE,       \* getSize: readdir has returned
   todo |-> {},            \* getSize: entries still to stat
   totalSize |-> 0,        \* getFolderSize's running total
   totalBytes |-> 0,       \* zipFolder's totalBytes
   bar |-> FALSE,          \* zipFolder's bar is not null
   processedBytes |-> 0,   \* data.fs.processedBytes of the last event
   lastPrinted |-> 0,      \* lastPrintedProgress * totalBytes
   archived |-> EmptyTree, \* entries the archiver has appended, as read
   errored |-> FALSE,      \* the archiver emitted 'error'
   stalled |-> FALSE,      \* ... and will never end its output
   out |-> "none",         \* file at outputZipPath
   outOpen |-> FALSE,      \* the write stream is open
   reported |-> FALSE,     \* "Successfully zipped" was printed
   cleaned |-> FALSE,      \* this cycle's delFolder ran
   failedAt |-> "none",    \* stage that ended the cycle in failure
   stages |-> <<>>,        \* history: stages in the order they happened
   updates |-> <<>>,       \* history: bar.update calls
   skipped |-> 0,          \* history: progress events below the threshold
   snap |-> EmptyTree,     \* history: the source's files at the start
   srcMissing |-> FALSE,   \* history: the source folder was missing at the start
   afterIdle |-> FALSE,    \* history: started with every earlier cycle over
   gap |-> 0]              \* history: ticks from the last one's end to the start

\* No cycle is running and one has been.
Idle ==
  /\ \A c \in Cycles : cyc[c].pc \notin Active
  /\ \E c \in Cycles : cyc[c].pc \in Ended

\* The folder zipFolder was handed as folderPath.
DirOf(c) == IF cyc[c].dir = "source" THEN source ELSE tmp

\* An uncaught exception or unhandled rejection raised by cycle c at stage
\* `why`: the process dies, and every other cycle in flight dies with it.
Killed(cs, c, why) ==
  [d \in Cycles |->
     IF d = c
       THEN [cs[d] EXCEPT !.pc = "failed", !.failedAt = why,
                          !.outOpen = FALSE]
     ELSE IF cs[d].pc \in Active
       THEN [cs[d] EXCEPT !.pc = "failed", !.failedAt = "killed",
                          !.outOpen = FALSE]
     ELSE cs[d]]

\* The source folder as the script finds it: missing, or there with any of
\* the files.
InitSources == {NoDir} \cup {Dir(t) : t \in Trees}

\* The workspace as the script finds it: absent, or left behind by an
\* earlier run of the recurring script that ended before its cleanup.
InitWorkspaces ==
  IF variant = "recurring" THEN {NoDir} \cup {Dir(t) : t \in Trees}
  ELSE {NoDir}

TypeOK ==
  /\ variant \in Variants
  /\ config \in {"present", "absent", "placeholder"}
  /\ proc \in {"boot", "running", "crashed", "exited"}
  /\ exitCode \in 0..1
  /\ now \in 0..MaxTime
  /\ idleFor \in 0..Interval
  /\ timerArmed \in BOOLEAN
  /\ started \in 0..MaxCycles
  /\ source.files \in Trees
  /\ tmp.files \in Trees
  /\ wsOwner \in 0..MaxCycles
  /\ writes \in 0..MaxWrites
  /\ scan.pc \in {"none", "called", "returned"}
  /\ scan.result.ok \in BOOLEAN

Init ==
  /\ variant \in Variants
  /\ config \in IF variant = "hardcoded" THEN {"present"}
                ELSE {"present", "absent"}
  /\ proc = "boot"
  /\ exitCode = 0
  /\ now = 0
  /\ timerArmed = FALSE
  /\ nextFire = 0
  /\ idleFor = 0
  /\ started = 0
  /\ source \in InitSources
  /\ tmp \in InitWorkspaces
  /\ wsOwner = 0
  /\ writes = 0
  /\ cyc = [c \in Cycles |-> IdleCycle]
  /\ scan = NoScan

\* -------------------------------------------------------- progress tracker
\* Mutant: the handler updates the bar on every event that adds bytes.
ProgressDueOnEveryEvent(processed, last, total) == processed > last

\* The 'progress' handler's test, progress - lastPrintedProgress >= 0.01,
\* with progress = processed / total and lastPrintedProgress = last / total
\* (both sides multiplied by 100 * total, total > 0).
ProgressDue(processed, last, total) == 100 * (processed - last) >= total

\* archive.on("progress", ...): the cycle's locals after one event that
\* reports `processed` bytes.
OnProgress(cy, processed) ==
  IF ~cy.bar THEN [cy EXCEPT !.processedBytes = processed]
  ELSE IF ProgressDue(processed, cy.lastPrinted, cy.totalBytes)
    THEN [cy EXCEPT !.processedBytes = processed,
                    !.lastPrinted = processed,
                    !.updates = Append(@, [by |-> "progress", at |-> processed])]
    ELSE [cy EXCEPT !.processedBytes = processed, !.skipped = 1]

\* ---------------------------------------------------------------- zipFolder
\* zipFolder up to its await: the output stream is created (the file is
\* created empty) and getFolderSize(folderPath) is called.
ZipFolderStart(cy, dirName) ==
  [cy EXCEPT !.pc = "scanning", !.dir = dirName, !.outOpen = TRUE,
             !.out = "empty", !.stages = @ \o <<"open", "scanStart">>]

\* Mutant: the bar is created whatever totalBytes is.
ZipFolderBuildBarAlways(cy, total) ==
  [cy EXCEPT !.pc = "archiving", !.totalBytes = total, !.bar = TRUE,
             !.todo = {}, !.totalSize = total,
             !.stages = @ \o <<"scanDone", "build">>]

\* zipFolder after its await, getFolderSize having returned `total`: the bar
\* is created for a non-empty tree, the handlers are registered, and
\* archive.pipe / directory / finalize start the build.
ZipFolderBuild(cy, total) ==
  [cy EXCEPT !.pc = "archiving", !.totalBytes = total, !.bar = (total > 0),
             !.todo = {}, !.totalSize = total,
             !.stages = @ \o <<"scanDone", "build">>]

\* copyFolder's outcomes on source folder src: all of it copied, or an I/O
\* error after the files in `copied` were written.
CopyOutcomes(src) ==
  {[ok |-> TRUE, copied |-> DOMAIN src.files]}
    \cup {[ok |-> FALSE, copied |-> k] : k \in SUBSET (DOMAIN src.files)}

\* Mutant: runBackupOperation calls zipFolder before copyFolder.
RunBackupOperationZipFirst(c) ==
  LET src == MkdirSync(source)
      base == [IdleCycle EXCEPT !.snap = src.files,
                                !.srcMissing = ~source.exists,
                                !.afterIdle = Idle, !.gap = idleFor]
  IN /\ source' = src
     /\ started' = c
     /\ tmp' = CpSync(src, tmp, DOMAIN src.files)
     /\ wsOwner' = c
     /\ cyc' = [cyc EXCEPT ![c] =
          [ZipFolderStart(base, "workspace") EXCEPT !.stages = Append(@, "copy")]]
     /\ proc' = "running"
     /\ exitCode' = 0

\* Mutant: runBackupOperation calls delFolder as soon as zipFolder has
\* returned its promise, without waiting for the output to close.
RunBackupOperationDeleteAtOnce(c) ==
  LET src == MkdirSync(source)
      base == [IdleCycle EXCEPT !.snap = src.files,
                                !.srcMissing = ~source.exists,
                                !.stages = <<"copy">>,
                                !.afterIdle = Idle, !.gap = idleFor]
  IN /\ source' = src
     /\ started' = c
     /\ tmp' = RmSync(CpSync(src, tmp, DOMAIN src.files))
     /\ wsOwner' = c
     /\ cyc' = [cyc EXCEPT ![c] =
          [ZipFolderStart(base, "workspace") EXCEPT !.cleaned = TRUE]]
     /\ proc' = "running"
     /\ exitCode' = 0

\* runBackupOperation as cycle c: copyFolder(folderName, tmpFolder), then
\* zipFolder(tmpFolder, zipPath, tmpFolder).  copyFolder is synchronous; an
\* exception it throws is caught nowhere and ends the process.
RunBackupOperation(c) ==
  \E o \in CopyOutcomes(MkdirSync(source)) :
    LET src == MkdirSync(source)
        base == [IdleCycle EXCEPT !.snap = src.files,
                                  !.srcMissing = ~source.exists,
                                  !.afterIdle = Idle, !.gap = idleFor]
    IN /\ source' = src
       /\ started' = c
       /\ IF o.ok
            THEN /\ tmp' = CpSync(src, tmp, o.copied)
                 /\ wsOwner' = c
                 /\ cyc' = [cyc EXCEPT ![c] =
                      ZipFolderStart([base EXCEPT !.stages = <<"copy">>],
                                     "workspace")]
                 /\ proc' = "running"
                 /\ exitCode' = 0
            ELSE /\ tmp' = IF o.copied = {} THEN tmp
                           ELSE CpSync(src, tmp, o.copied)
                 /\ wsOwner' = IF o.copied = {} THEN wsOwner ELSE c
                 /\ cyc' = Killed([cyc EXCEPT ![c] = base], c, "copy")
                 /\ proc' = "crashed"
                 /\ exitCode' = 1

\* ------------------------------------------------------------------ actions
\* Mutant: the placeholder is written and the process exits with status 0.
BootstrapExitsZero ==
  /\ proc = "boot"
  /\ config = "absent"
  /\ config' = "placeholder"
  /\ proc' = "exited"
  /\ exitCode' = 0
  /\ UNCHANGED <<scan, idleFor, variant, now, timerArmed, nextFire, started, source, tmp,
                 wsOwner, writes, cyc>>

\* backup.yaml is missing: the placeholder is written and process.exit(1).
Bootstrap ==
  /\ proc = "boot"
  /\ config = "absent"
  /\ config' = "placeholder"
  /\ proc' = "exited"
  /\ exitCode' = 1
  /\ UNCHANGED <<scan, idleFor, variant, now, timerArmed, nextFire, started, source, tmp,
                 wsOwner, writes, cyc>>

\* The single-shot scripts: zipFolder(folderName, zipPath) on the source.
StartSingle ==
  /\ proc = "boot"
  /\ config = "present"
  /\ variant \in {"hardcoded", "single"}
  /\ proc' = "running"
  /\ started' = 1
  /\ cyc' = [cyc EXCEPT ![1] =
       ZipFolderStart([IdleCycle EXCEPT !.snap = source.files], "source")]
  /\ UNCHANGED <<scan, idleFor, variant, config, exitCode, now, timerArmed, nextFire,
                 source, tmp, wsOwner, writes>>

\* The recurring script: runBackupOperation(); setInterval(...).  The timer
\* is registered only if the first call returns.
StartRecurring ==
  /\ proc = "boot"
  /\ config = "present"
  /\ variant = "recurring"
  /\ RunBackupOperation(1)
  /\ timerArmed' = (proc' = "running")
  /\ nextFire' = now + Interval
  /\ idleFor' = 0
  /\ UNCHANGED <<scan, variant, config, now, writes>>

\* The interval timer's callback.  Node re-arms the timer from the time the
\* callback starts, whatever the callback does next.
TimerFire ==
  /\ proc = "running"
  /\ timerArmed
  /\ now >= nextFire
  /\ started < MaxCycles
  /\ RunBackupOperation(started + 1)
  /\ timerArmed' = (proc' = "running")
  /\ nextFire' = now + Interval
  /\ idleFor' = 0
  /\ UNCHANGED <<scan, variant, config, now, writes>>

\* A rejection of getFolderSize is handled nowhere: zipFolder's promise
\* rejects, nobody awaits it, and the process ends.
ScanRejects(c) ==
  /\ cyc' = Killed(cyc, c, "scan")
  /\ proc' = "crashed"
  /\ exitCode' = 1
  /\ timerArmed' = FALSE

\* getSize: readdir(dir) returns.  A missing folder rejects; an empty one
\* ends the scan at once.
ScanReaddir(c) ==
  /\ proc = "running"
  /\ cyc[c].pc = "scanning"
  /\ ~cyc[c].listed
  /\ IF ~DirOf(c).exists
       THEN ScanRejects(c)
       ELSE /\ cyc' = [cyc EXCEPT ![c] =
                 IF DOMAIN DirOf(c).files = {}
                   THEN ZipFolderBuild([@ EXCEPT !.listed = TRUE], 0)
                   ELSE [@ EXCEPT !.listed = TRUE,
                                  !.todo = DOMAIN DirOf(c).files]]
            /\ UNCHANGED <<proc, exitCode, timerArmed>>
  /\ UNCHANGED <<scan, idleFor, variant, config, now, nextFire, started, source, tmp,
                 wsOwner, writes>>

\* getSize: stat(fullPath) of one listed entry returns.  An entry that has
\* gone since the readdir rejects; the last entry ends the scan.
ScanStat(c, f) ==
  /\ proc = "running"
  /\ cyc[c].pc = "scanning"
  /\ cyc[c].listed
  /\ f \in cyc[c].todo
  /\ IF ~(DirOf(c).exists /\ f \in DOMAIN DirOf(c).files)
       THEN ScanRejects(c)
       ELSE /\ LET total == cyc[c].totalSize + DirOf(c).files[f]
               IN cyc' = [cyc EXCEPT ![c] =
                    IF cyc[c].todo = {f}
                      THEN ZipFolderBuild(@, total)
                      ELSE [@ EXCEPT !.todo = @ \ {f}, !.totalSize = total]]
            /\ UNCHANGED <<proc, exitCode, timerArmed>>
  /\ UNCHANGED <<scan, idleFor, variant, config, now, nextFire, started, source, tmp,
                 wsOwner, writes>>

\* readdir or stat fails for a reason of the environment's (permissions,
\* an I/O error).
ScanFail(c) ==
  /\ proc = "running"
  /\ cyc[c].pc = "scanning"
  /\ ScanRejects(c)
  /\ UNCHANGED <<scan, idleFor, variant, config, now, nextFire, started, source, tmp,
                 wsOwner, writes>>

\* The archiver appends one entry of folderPath, as it is on disk now, and
\* emits 'progress' with the bytes processed so far.
ArchiveEntry(c, f) ==
  /\ proc = "running"
  /\ cyc[c].pc = "archiving"
  /\ ~cyc[c].stalled
  /\ DirOf(c).exists
  /\ f \in (DOMAIN DirOf(c).files) \ DOMAIN cyc[c].archived
  /\ cyc' = [cyc EXCEPT ![c] =
       OnProgress([@ EXCEPT !.archived = Put(@, f, DirOf(c).files[f]),
                            !.out = "partial"],
                  cyc[c].processedBytes + DirOf(c).files[f])]
  /\ UNCHANGED <<scan, idleFor, variant, config, proc, exitCode, now, timerArmed, nextFire,
                 started, source, tmp, wsOwner, writes>>

\* archive.on("error", ...).  The recurring script reports the error and
\* does nothing else: whether the output still ends is the archiver's
\* business (`stall`).  The single-shot scripts throw from the handler,
\* which ends the process.
ArchiveError(c) ==
  /\ proc = "running"
  /\ cyc[c].pc = "archiving"
  /\ ~cyc[c].errored
  /\ IF variant = "recurring"
       THEN /\ \E stall \in BOOLEAN :
                 cyc' = [cyc EXCEPT ![c].errored = TRUE,
                                    ![c].stalled = stall,
                                    ![c].failedAt = "archive"]
            /\ UNCHANGED <<proc, exitCode, timerArmed>>
       ELSE /\ cyc' = Killed([cyc EXCEPT ![c].errored = TRUE], c, "archive")
            /\ proc' = "crashed"
            /\ exitCode' = 1
            /\ timerArmed' = FALSE
  /\ UNCHANGED <<scan, idleFor, variant, config, now, nextFire, started, source, tmp,
                 wsOwner, writes>>

\* The output stream emits 'error' (the file cannot be opened or written).
\* No script listens for it, so it is thrown and ends the process.
OutputError(c) ==
  /\ proc = "running"
  /\ cyc[c].pc \in Active
  /\ cyc[c].outOpen
  /\ cyc' = Killed(cyc, c, "output")
  /\ proc' = "crashed"
  /\ exitCode' = 1
  /\ timerArmed' = FALSE
  /\ UNCHANGED <<scan, idleFor, variant, config, now, nextFire, started, source, tmp,
                 wsOwner, writes>>

\* output.on("close", ...): every entry on disk has been appended and the
\* archive is finalized.  The bar is set to 100%, success is printed, and
\* the recurring script deletes the workspace.  A single-shot script has
\* nothing left to do and exits.
OutputClose(c) ==
  /\ proc = "running"
  /\ cyc[c].pc = "archiving"
  /\ ~cyc[c].stalled
  /\ (DOMAIN DirOf(c).files) \ DOMAIN cyc[c].archived = {}
  /\ cyc' = [cyc EXCEPT ![c] =
       [@ EXCEPT !.pc = "done", !.outOpen = FALSE, !.reported = TRUE,
                 !.out = IF cyc[c].errored THEN "truncated" ELSE "complete",
                 !.updates = IF cyc[c].bar
                               THEN Append(@, [by |-> "close",
                                               at |-> cyc[c].totalBytes])
                               ELSE @,
                 !.cleaned = (variant = "recurring"),
                 !.stages = IF variant = "recurring"
                              THEN Append(@, "cleanup") ELSE @]]
  /\ idleFor' = 0
  /\ IF variant = "recurring"
       THEN /\ tmp' = RmSync(tmp)
            /\ wsOwner' = c
            /\ UNCHANGED proc
       ELSE /\ proc' = "exited"
            /\ UNCHANGED <<tmp, wsOwner>>
  /\ UNCHANGED <<scan, variant, config, exitCode, now, timerArmed, nextFire,
                 started, source, writes>>

\* Whoever owns the source folder creates a file in it, or removes one.
SourceWrite(f) ==
  /\ proc = "running"
  /\ writes < MaxWrites
  /\ source.exists
  /\ source' = IF f \in DOMAIN source.files
                 THEN Dir(Without(source.files, f))
                 ELSE Dir(Put(source.files, f, SizeOf[f]))
  /\ writes' = writes + 1
  /\ UNCHANGED <<scan, idleFor, variant, config, proc, exitCode, now, timerArmed, nextFire,
                 started, tmp, wsOwner, cyc>>

\* Time passes.  A due timer's callback runs before more time passes.
Tick ==
  /\ proc = "running"
  /\ now < MaxTime
  /\ timerArmed => now < nextFire
  /\ now' = now + 1
  /\ idleFor' = IF Idle THEN idleFor + 1 ELSE idleFor
  /\ UNCHANGED <<scan, variant, config, proc, exitCode, timerArmed, nextFire,
                 started, source, tmp, wsOwner, writes, cyc>>

Next ==
  \/ Bootstrap
  \/ StartSingle
  \/ StartRecurring
  \/ TimerFire
  \/ \E c \in Cycles : ScanReaddir(c)
  \/ \E c \in Cycles, f \in Names : ScanStat(c, f)
  \/ \E c \in Cycles : ScanFail(c)
  \/ \E c \in Cycles, f \in Names : ArchiveEntry(c, f)
  \/ \E c \in Cycles : ArchiveError(c)
  \/ \E c \in Cycles : OutputError(c)
  \/ \E c \in Cycles : OutputClose(c)
  \/ \E f \in Names : SourceWrite(f)
  \/ Tick

Spec == Init /\ [][Next]_vars

\* ------------------------------------------------- getFolderSize on its own
\* One call of getFolderSize(folderPath) on any of the folders, with no
\* backup running.
ScanInit ==
  /\ variant = "recurring"
  /\ config = "present"
  /\ proc = "boot"
  /\ exitCode = 0
  /\ now = 0
  /\ timerArmed = FALSE
  /\ nextFire = 0
  /\ idleFor = 0
  /\ started = 0
  /\ source = NoDir
  /\ tmp = NoDir
  /\ wsOwner = 0
  /\ writes = 0
  /\ cyc = [c \in Cycles |-> IdleCycle]
  /\ scan \in {[pc |-> "called", folder |-> f, result |-> Rejected] :
                 f \in ScanFolders}

\* The promise getFolderSize returned settles.
GetFolderSizeSettles ==
  /\ scan.pc = "called"
  /\ scan' = [scan EXCEPT !.pc = "returned",
                          !.result = GetFolderSize(scan.folder)]
  /\ UNCHANGED <<variant, config, proc, exitCode, now, timerArmed, nextFire,
                 idleFor, started, source, tmp, wsOwner, writes, cyc>>

ScanNext == GetFolderSizeSettles

ScanSpec == ScanInit /\ [][ScanNext]_vars

\* The event loop runs every callback that is due: a pending readdir or
\* stat completion, the next entry of a running build, the end of the
\* output, a due timer, and the clock itself.  Failures and writes to the
\* source are the environment's and get no fairness.
FairSpec ==
  /\ Spec
  /\ WF_vars(TimerFire)
  /\ WF_vars(Tick)
  /\ \A c \in Cycles :
       /\ WF_vars(ScanReaddir(c))
       /\ WF_vars(\E f \in Names : ScanStat(c, f))
       /\ WF_vars(\E f \in Names : ArchiveEntry(c, f))
       /\ WF_vars(OutputClose(c))

\* ------------------------------------------------------------------ claims
ZipCalled(c) == cyc[c].dir # "none"
Failed(c) == cyc[c].pc = "failed" \/ cyc[c].errored

\* bar.update call i of cycle c exceeds the one before it (or 0, for the
\* first) by at least 1% of totalBytes.
StepOfOnePercent(c, i) ==
  LET u == cyc[c].updates
      prev == IF i = 1 THEN 0 ELSE u[i - 1].at
  IN 100 * (u[i].at - prev) >= cyc[c].totalBytes

IsPrefix(s, t) == Len(s) <= Len(t) /\ \A i \in 1..Len(s) : s[i] = t[i]

\* The order of a cycle's stages in the code.
CodeOrder ==
  IF variant = "recurring"
    THEN <<"copy", "open", "scanStart", "scanDone", "build", "cleanup">>
    ELSE <<"open", "scanStart", "scanDone", "build">>

\* C1: in every variant the archive build reads the isolated copy, never the
\* source path, and what it archives is the source as the cycle found it.
C1_ArchiveReadsOnlyTheCopy ==
  \A c \in Cycles :
    ZipCalled(c) =>
      /\ cyc[c].dir = "workspace"
      /\ \A f \in DOMAIN cyc[c].archived :
           f \in DOMAIN cyc[c].snap /\ cyc[c].archived[f] = cyc[c].snap[f]

\* C2: at most one backup cycle is active at any time.
C2_AtMostOneCycleActive ==
  Cardinality({c \in Cycles : cyc[c].pc \in Active}) <= 1

\* C3: once a cycle has ended, in success or in failure, and none is running,
\* the temporary workspace that a cycle wrote does not exist.
C3_WorkspaceGoneAfterCycle ==
  (/\ variant = "recurring"
   /\ wsOwner # 0
   /\ \E c \in Cycles : cyc[c].pc \in Ended
   /\ \A c \in Cycles : cyc[c].pc \notin Active)
    => ~tmp.exists

\* C4: in the recurring variant a failed cycle leaves the process alive and
\* the timer armed.
C4_FailedCycleKeepsScheduler ==
  (variant = "recurring" /\ \E c \in Cycles : Failed(c))
    => (proc = "running" /\ timerArmed)

\* C5: while a cycle's build reads the workspace, the workspace was last
\* written or removed by that cycle and by no other.
C5_WorkspacePrivateToCycle ==
  \A c \in Cycles :
    (cyc[c].pc = "archiving" /\ cyc[c].dir = "workspace") => wsOwner = c

\* C6: every cycle the scheduler starts eventually has cleaned up and is
\* done, whatever the outcome of its build.
C6_EveryCycleReachesCleanup ==
  \A c \in Cycles :
    (variant = "recurring" /\ cyc[c].pc \in Active)
      ~> (cyc[c].pc = "done" /\ cyc[c].cleaned)

\* C7: a cycle that starts when every cycle before it is over starts a full
\* timer interval after the last of them ended.
C7_FullIntervalAfterCompletion ==
  \A c \in Cycles :
    (c > 1 /\ cyc[c].pc # "idle" /\ cyc[c].afterIdle)
      => cyc[c].gap = Interval

C9_FailedBuildLeavesNoArchive ==
  \A c \in Cycles :
    cyc[c].failedAt \in {"scan", "output", "archive"}
      => /\ ~cyc[c].outOpen
         /\ ~cyc[c].reported
         /\ cyc[c].out \notin {"empty", "partial", "truncated"}

\* C10 (as stated): every bar.update of a build, the final one on close
\* included, exceeds the one before it by at least 1% of totalBytes.
C10_EveryUpdateOnePercentApart ==
  \A c \in Cycles :
    \A i \in 1..Len(cyc[c].updates) : StepOfOnePercent(c, i)

\* C10 (amended): every bar.update made by the 'progress' handler exceeds
\* the update before it by at least 1% of totalBytes; the one update made on
\* close is the last, is 100%, and is made whatever the update before it.
C10_ProgressUpdatesOnePercentApart ==
  \A c \in Cycles :
    \A i \in 1..Len(cyc[c].updates) :
      IF cyc[c].updates[i].by = "progress"
        THEN StepOfOnePercent(c, i)
        ELSE i = Len(cyc[c].updates) /\ cyc[c].updates[i].at = cyc[c].totalBytes

C10_Witness ==
  \E c \in Cycles :
    /\ cyc[c].pc = "done"
    /\ cyc[c].skipped = 1
    /\ Len(cyc[c].updates) = 2
    /\ cyc[c].updates[1].by = "progress"

\* C11: for every progress event of a build, processedBytes is at most the
\* totalBytes that getFolderSize computed for that build, so no fraction
\* greater than 1 is passed to the bar.
C11_ProcessedNeverExceedsTotal ==
  \A c \in Cycles :
    /\ cyc[c].processedBytes <= cyc[c].totalBytes
    /\ \A i \in 1..Len(cyc[c].updates) :
         cyc[c].updates[i].at <= cyc[c].totalBytes

\* C12: a build whose totalBytes is 0 has no bar, so no progress update is
\* made and no fraction is computed, on a progress event or on close; when
\* its output has closed, success is reported with zero bytes and, in the
\* recurring variant, the workspace has been deleted by this cycle.
C12_EmptyTreeCompletesSilently ==
  \A c \in Cycles :
    (cyc[c].pc \in {"archiving", "done"} /\ cyc[c].totalBytes = 0)
      => /\ ~cyc[c].bar
         /\ cyc[c].updates = <<>>
         /\ cyc[c].skipped = 0
         /\ cyc[c].pc = "done"
              => /\ cyc[c].reported
                 /\ ~cyc[c].outOpen
                 /\ cyc[c].totalSize = 0
                 /\ variant = "recurring" => cyc[c].cleaned

C12_Witness ==
  \E c \in Cycles :
    /\ variant = "recurring"
    /\ cyc[c].pc = "done"
    /\ cyc[c].totalBytes = 0
    /\ cyc[c].archived = EmptyTree
    /\ cyc[c].out = "complete"
    /\ ~tmp.exists

\* C13: whenever a cycle's copy starts, the workspace is absent or empty: it
\* holds no file that an earlier cycle of this run copied into it.
C13_CopyStartsFromEmptyWorkspace ==
  [][(variant = "recurring" /\ started' # started)
       => \A d \in 1..started :
            (DOMAIN tmp.files) \cap (DOMAIN cyc[d].snap) = {}]_vars

\* C14: a cycle that finds the source folder missing fails in copyFolder: it
\* zips nothing and reports no success.
C14_MissingSourceFailsTheCycle ==
  \A c \in Cycles :
    cyc[c].srcMissing
      => /\ cyc[c].pc = "failed"
         /\ cyc[c].failedAt = "copy"
         /\ ~ZipCalled(c)
         /\ ~cyc[c].reported

\* C16: when backup.yaml is absent at startup, the process writes the
\* placeholder and exits with a non-zero status, and in that run no cycle
\* starts: no copy, no size scan, no build, no timer.
C16_AbsentConfigExitsBeforeAnyWork ==
  /\ config = "absent" => (proc = "boot" /\ started = 0)
  /\ config = "placeholder"
       => /\ proc = "exited"
          /\ exitCode # 0
          /\ started = 0
          /\ ~timerArmed
          /\ wsOwner = 0
          /\ \A c \in Cycles : cyc[c] = IdleCycle

C16_Witness ==
  /\ variant = "recurring"
  /\ config = "placeholder"
  /\ proc = "exited"

\* C19: within one cycle, delFolder and the success report happen only in
\* the step in which the cycle's output closes, when the build has nothing
\* left to read, and never again afterwards.
C19_CleanupAndReportOnlyOnClose ==
  /\ [](\A c \in Cycles :
         (cyc[c].reported \/ cyc[c].cleaned)
           => (cyc[c].pc = "done" /\ ~cyc[c].outOpen))
  /\ [][\A c \in Cycles :
         /\ (cyc'[c].reported /\ ~cyc[c].reported)
              => /\ cyc[c].pc = "archiving"
                 /\ (DOMAIN DirOf(c).files) \subseteq DOMAIN cyc[c].archived
         /\ cyc[c].reported => cyc'[c] = cyc[c]]_vars

C19_Witness ==
  \E c \in Cycles :
    /\ variant = "recurring"
    /\ cyc[c].pc = "done"
    /\ cyc[c].reported
    /\ cyc[c].cleaned
    /\ cyc[c].archived # EmptyTree
    /\ ~tmp.exists

\* C20: no step of a backup cycle changes the source folder: it changes
\* only when its owner writes to it.
C20_CycleLeavesSourceUnchanged ==
  [][writes' = writes => source' = source]_vars

\* The bytes of the regular files under the entries es, nested ones
\* included: what the size of a tree is said to be.
RECURSIVE RegularFileBytes(_)
RegularFileBytes(es) ==
  IF es = <<>> THEN 0
  ELSE LET e == Head(es)
           own == IF e.kind = "file" THEN e.size
                  ELSE IF e.kind = "dir" THEN RegularFileBytes(e.entries)
                  ELSE 0
       IN own + RegularFileBytes(Tail(es))

\* C15: right after a cycle's copyFolder, getFolderSize of the workspace
\* equals getFolderSize of the source as it was at copy time, whatever the
\* workspace held before the copy.
C15_CopyPreservesFolderSize ==
  \A c \in Cycles :
    (/\ variant = "recurring"
     /\ cyc[c].pc = "scanning"
     /\ ~cyc[c].listed
     /\ wsOwner = c)
      => GetFolderSize(FolderOf(tmp)) = GetFolderSize(Folder(AsEntries(cyc[c].snap)))

\* C17: a total that getFolderSize returns is the sum of the byte lengths
\* of the regular files under the folder: directories and entries that are
\* not regular files add nothing.
C17_SizeIsSumOfRegularFiles ==
  (scan.pc = "returned" /\ scan.result.ok)
    => scan.result.totalSize = RegularFileBytes(scan.folder.entries)

\* C18: getFolderSize rejects only when the root folder is inaccessible: an
\* entry below the root that cannot be read is skipped and a total is
\* still returned.
C18_OnlyRootFailureRejects ==
  (scan.pc = "returned" /\ scan.folder.accessible) => scan.result.ok

====
